---- MODULE Spec2Model ----
(***************************************************************************)
(* Relational CRUD layer of utils/db_operations.py: products, categories   *)
(* and tags in a single-file store, every write run through the            *)
(* with_transaction decorator.                                             *)
(*                                                                         *)
(* The committed store is the variable `store`.  A write operation works   *)
(* on the view of its own unit-of-work (the `txn` field of what the        *)
(* wrapped function leaves behind); with_transaction either commits that   *)
(* view or rolls it back.  `last` records the latest call, as its caller   *)
(* sees it, until the caller takes the result (action Return).  `proc`     *)
(* holds the position of each of two concurrent creators, which run the    *)
(* statements of category_create / tag_create one at a time, each in a     *)
(* session of its own.  `tables` tells whether the tables of the store     *)
(* exist: drop_tables removes them with their rows, create_tables creates  *)
(* the ones that are absent.                                               *)
(***************************************************************************)
EXTENDS Integers, Sequences, FiniteSets, TLC

VARIABLES store, last, proc, tables

vars == <<store, last, proc, tables>>

(***************************************************************************)
(* Bounds and input domains.                                               *)
(***************************************************************************)
\* Rows the store may hold over its three entity tables together.
MaxRows == 3

\* The same, where the storage engine is let fail.
MaxFaultRows == 2

\* The same, where the store is only filled and searched.
MaxSearchRows == 4

\* The same, where two callers create categories and tags concurrently.
MaxConcurrentRows == 3

\* Optional[...] values: None is the empty tuple, a present value a 1-tuple.
None == <<>>

Some(x) == <<x>>

\* Strings are tuples of characters; a character outside ASCII is written
\* as its code point ("U+041D" and "U+043D": the Cyrillic capital and small
\* letter en).
Names == { <<"p">>, <<"P", "o">> }

\* The scalar fields of ProductCreate / ProductUpdate.
ProductScalars ==
    { [name |-> <<"p", "o">>, description |-> None, image_url |-> None,
       price_shmeckles |-> 1, price_flurbos |-> 2],
      [name |-> <<"U+041D">>, description |-> Some(<<"d">>), image_url |-> Some(<<"u">>),
       price_shmeckles |-> 3, price_flurbos |-> 4] }

\* Default page of product_get_all: skip=0, limit=100.
DefaultSkip == 0

DefaultLimit == 100

\* Where the storage engine may fail during one call: nowhere, on the
\* function's flush, on the statement that follows the flush, or on commit.
Faults == {"none", "flush", "refresh", "commit"}

(***************************************************************************)
(* The store: three entity tables and the association table.               *)
(***************************************************************************)
EmptyDb ==
    [categories |-> {}, tags |-> {}, products |-> {}, product_tags |-> {}]

Range(s) == { s[i] : i \in DOMAIN s }

Ids(rows) == { r.id : r \in rows }

MaxOf(S) == CHOOSE m \in S : \A x \in S : x <= m

\* A key generator that counts the rows instead of taking the largest id.
NextId_Count(rows) == Cardinality(rows) + 1

\* Integer primary key of a new row: one more than the largest id in use.
NextId(rows) == IF rows = {} THEN 1 ELSE MaxOf(Ids(rows)) + 1

TotalRows(db) ==
    Cardinality(db.categories) + Cardinality(db.tags) + Cardinality(db.products)

\* session.get(Model, id): the row, or None.
Get(rows, id) ==
    IF id \in Ids(rows) THEN Some(CHOOSE r \in rows : r.id = id) ELSE None

\* Rows in storage order (by primary key).
RECURSIVE InIdOrder(_)
InIdOrder(rows) ==
    IF rows = {} THEN <<>>
    ELSE LET first == CHOOSE r \in rows : \A q \in rows : r.id <= q.id
         IN  <<first>> \o InIdOrder(rows \ {first})

\* .offset(skip).limit(limit) on a result list.
Page(rows, skip, limit) ==
    SubSeq(rows, skip + 1, IF skip + limit < Len(rows) THEN skip + limit ELSE Len(rows))

\* The tag ids associated with a product.
TagIdsOf(db, pid) == { a.tag_id : a \in { x \in db.product_tags : x.product_id = pid } }

\* Product.model_validate(orm): scalar fields, nested category, list of tags.
ProductRead(db, row) ==
    [id |-> row.id, name |-> row.name, description |-> row.description,
     image_url |-> row.image_url, price_shmeckles |-> row.price_shmeckles,
     price_flurbos |-> row.price_flurbos,
     category |-> IF row.category_id = None THEN None
                  ELSE Get(db.categories, row.category_id[1]),
     tags |-> InIdOrder({ t \in db.tags : t.id \in TagIdsOf(db, row.id) })]

\* The ORM row built from a DTO's scalar fields.
ProductRow(id, data, category_id) ==
    [id |-> id, name |-> data.name, description |-> data.description,
     image_url |-> data.image_url, price_shmeckles |-> data.price_shmeckles,
     price_flurbos |-> data.price_flurbos, category_id |-> category_id]

(***************************************************************************)
(* What a wrapped function leaves behind: whether it raised, its result,   *)
(* the view of its unit-of-work (`txn`: the store with the writes it       *)
(* flushed and the edits still pending in the session, that is, what a     *)
(* commit would make durable), whether it flushed, and the in-memory       *)
(* entity it was editing when it raised.                                   *)
(***************************************************************************)
Returned(result, txn, flushed) ==
    [raised |-> FALSE, exc |-> "", result |-> Some(result), txn |-> txn,
     flushed |-> flushed, entity |-> None]

Raised(exc, txn, flushed, entity) ==
    [raised |-> TRUE, exc |-> exc, result |-> None, txn |-> txn,
     flushed |-> flushed, entity |-> entity]

(***************************************************************************)
(* with_transaction: one unit-of-work per call; commit when the function   *)
(* returns, rollback and re-raise when the function or the commit raises.  *)
(* `calls` is the sequence of commit/rollback calls made on the session.   *)
(***************************************************************************)
\* A wrapper whose commit is outside the try block: a failed commit is not
\* followed by a rollback.
with_transaction_CommitOutsideTry(db, out, commit_fails) ==
    IF out.raised
    THEN [store |-> db, raised |-> TRUE, exc |-> out.exc, result |-> None,
          calls |-> <<"rollback">>]
    ELSE IF commit_fails
    THEN [store |-> db, raised |-> TRUE, exc |-> "StorageFailure", result |-> None,
          calls |-> <<"commit">>]
    ELSE [store |-> out.txn, raised |-> FALSE, exc |-> "", result |-> out.result,
          calls |-> <<"commit">>]

\* A wrapper whose except branch commits instead of rolling back.
with_transaction_CommitOnError(db, out, commit_fails) ==
    IF out.raised
    THEN [store |-> out.txn, raised |-> TRUE, exc |-> out.exc, result |-> None,
          calls |-> <<"commit">>]
    ELSE IF commit_fails
    THEN [store |-> db, raised |-> TRUE, exc |-> "StorageFailure", result |-> None,
          calls |-> <<"commit", "rollback">>]
    ELSE [store |-> out.txn, raised |-> FALSE, exc |-> "", result |-> out.result,
          calls |-> <<"commit">>]

\* A wrapper that logs and re-raises without rolling back, so that closing
\* the session leaves the flushed and pending writes to a later commit.
with_transaction_NoRollback(db, out, commit_fails) ==
    IF out.raised
    THEN [store |-> out.txn, raised |-> TRUE, exc |-> out.exc, result |-> None,
          calls |-> <<"rollback">>]
    ELSE IF commit_fails
    THEN [store |-> db, raised |-> TRUE, exc |-> "StorageFailure", result |-> None,
          calls |-> <<"commit", "rollback">>]
    ELSE [store |-> out.txn, raised |-> FALSE, exc |-> "", result |-> out.result,
          calls |-> <<"commit">>]

with_transaction(db, out, commit_fails) ==
    IF out.raised
    THEN [store |-> db, raised |-> TRUE, exc |-> out.exc, result |-> None,
          calls |-> <<"rollback">>]
    ELSE IF commit_fails
    THEN [store |-> db, raised |-> TRUE, exc |-> "StorageFailure", result |-> None,
          calls |-> <<"commit", "rollback">>]
    ELSE [store |-> out.txn, raised |-> FALSE, exc |-> "", result |-> out.result,
          calls |-> <<"commit">>]

(***************************************************************************)
(* Category CRUD.                                                          *)
(***************************************************************************)
\* select(...).where(name == ...): the rows a name lookup returns.
ByName(rows, name) == { r \in rows : r.name = name }

\* Existence check by name (scalar_one_or_none), then add, flush, refresh.
category_create(db, name, fault) ==
    LET existing     == ByName(db.categories, name)
        new_category == [id |-> NextId(db.categories), name |-> name]
        added        == [db EXCEPT !.categories = @ \cup {new_category}]
    IN  IF Cardinality(existing) > 1
        THEN Raised("MultipleResultsFound", db, FALSE, None)
        ELSE IF existing # {} THEN Returned(CHOOSE r \in existing : TRUE, db, FALSE)
        ELSE IF fault = "flush" THEN Raised("StorageFailure", added, FALSE, None)
        ELSE IF fault = "refresh" THEN Raised("StorageFailure", added, TRUE, None)
        ELSE Returned(new_category, added, TRUE)

\* An update that inserts the row when the id does not resolve.
category_update_Upsert(db, category_id, name, fault) ==
    LET category == Get(db.categories, category_id)
        renamed  == [id |-> category_id, name |-> name]
        edited   == [db EXCEPT !.categories = (@ \ Range(category)) \cup {renamed}]
    IN  IF fault = "flush" THEN Raised("StorageFailure", edited, FALSE, Some(renamed))
        ELSE IF fault = "refresh" THEN Raised("StorageFailure", edited, TRUE, Some(renamed))
        ELSE Returned(renamed, edited, TRUE)

\* session.get, rename in place, flush, refresh.
category_update(db, category_id, name, fault) ==
    LET category == Get(db.categories, category_id)
        renamed  == [id |-> category_id, name |-> name]
        edited   == [db EXCEPT !.categories = (@ \ Range(category)) \cup {renamed}]
    IN  IF category = None THEN Raised("ValueError", db, FALSE, None)
        ELSE IF fault = "flush" THEN Raised("StorageFailure", edited, FALSE, Some(renamed))
        ELSE IF fault = "refresh" THEN Raised("StorageFailure", edited, TRUE, Some(renamed))
        ELSE Returned(renamed, edited, TRUE)

\* Deleting a category row detaches the products that referenced it.
CategoryRowDeleted(db, category_id) ==
    [db EXCEPT
        !.categories = { c \in @ : c.id # category_id },
        !.products = { IF p.category_id = Some(category_id)
                       THEN [p EXCEPT !.category_id = None] ELSE p : p \in @ }]

\* A delete that refuses a category that still has products.
category_delete_RefuseDependents(db, category_id) ==
    IF \/ Get(db.categories, category_id) = None
       \/ \E p \in db.products : p.category_id = Some(category_id)
    THEN Returned(-1, db, FALSE)
    ELSE Returned(category_id, CategoryRowDeleted(db, category_id), FALSE)

\* Count the dependent products (logged only), session.get, session.delete.
category_delete(db, category_id) ==
    IF Get(db.categories, category_id) = None
    THEN Returned(-1, db, FALSE)
    ELSE Returned(category_id, CategoryRowDeleted(db, category_id), FALSE)

category_get_all(db) == InIdOrder(db.categories)

(***************************************************************************)
(* Tag CRUD.                                                               *)
(***************************************************************************)
tag_create(db, name, fault) ==
    LET existing == ByName(db.tags, name)
        new_tag  == [id |-> NextId(db.tags), name |-> name]
        added    == [db EXCEPT !.tags = @ \cup {new_tag}]
    IN  IF Cardinality(existing) > 1
        THEN Raised("MultipleResultsFound", db, FALSE, None)
        ELSE IF existing # {} THEN Returned(CHOOSE r \in existing : TRUE, db, FALSE)
        ELSE IF fault = "flush" THEN Raised("StorageFailure", added, FALSE, None)
        ELSE IF fault = "refresh" THEN Raised("StorageFailure", added, TRUE, None)
        ELSE Returned(new_tag, added, TRUE)

tag_update(db, tag_id, name, fault) ==
    LET tag     == Get(db.tags, tag_id)
        renamed == [id |-> tag_id, name |-> name]
        edited  == [db EXCEPT !.tags = (@ \ Range(tag)) \cup {renamed}]
    IN  IF tag = None THEN Raised("ValueError", db, FALSE, None)
        ELSE IF fault = "flush" THEN Raised("StorageFailure", edited, FALSE, Some(renamed))
        ELSE IF fault = "refresh" THEN Raised("StorageFailure", edited, TRUE, Some(renamed))
        ELSE Returned(renamed, edited, TRUE)

\* Deleting a tag row removes its association rows.
TagRowDeleted(db, tag_id) ==
    [db EXCEPT
        !.tags = { t \in @ : t.id # tag_id },
        !.product_tags = { a \in @ : a.tag_id # tag_id }]

\* A delete that also deletes the products loaded with the tag.
tag_delete_WithProducts(db, tag_id) ==
    IF Get(db.tags, tag_id) = None
    THEN Returned(-1, db, FALSE)
    ELSE LET gone  == { a.product_id : a \in { x \in db.product_tags : x.tag_id = tag_id } }
             after == TagRowDeleted(db, tag_id)
         IN  Returned(tag_id,
                      [after EXCEPT
                          !.products = { p \in @ : p.id \notin gone },
                          !.product_tags = { a \in @ : a.product_id \notin gone }],
                      FALSE)

\* Select the tag with its products (counted for the log), session.delete.
tag_delete(db, tag_id) ==
    IF Get(db.tags, tag_id) = None
    THEN Returned(-1, db, FALSE)
    ELSE Returned(tag_id, TagRowDeleted(db, tag_id), FALSE)

tag_get_all(db) == InIdOrder(db.tags)

(***************************************************************************)
(* Product CRUD.                                                           *)
(***************************************************************************)
\* select(TagORM).where(TagORM.id.in_(tag_ids)): each matching row once.
TagsIn(db, tag_ids) == { t \in db.tags : t.id \in Range(tag_ids) }

\* An assignment that keeps only the first of the loaded tags.
TagLinks_FirstOnly(pid, tags) ==
    { [product_id |-> pid, tag_id |-> t.id] :
        t \in { x \in tags : \A y \in tags : x.id <= y.id } }

\* product.tags = list(tags_orm): the association rows of the product.
TagLinks(pid, tags) == { [product_id |-> pid, tag_id |-> t.id] : t \in tags }

\* The store with a product row and its association rows replaced.
WithProduct(db, row, tags) ==
    [db EXCEPT
        !.products = { p \in @ : p.id # row.id } \cup {row},
        !.product_tags = { a \in @ : a.product_id # row.id } \cup TagLinks(row.id, tags)]

\* The lenient variant: tag ids that do not resolve are dropped and the
\* product is stored with the tags that did resolve.
product_create_Lenient(db, data, fault) ==
    LET has_category == data.category_id # None /\ data.category_id[1] # 0
        category_orm == IF has_category
                        THEN Get(db.categories, data.category_id[1]) ELSE None
        tags_orm     == TagsIn(db, data.tag_ids)
        new_product  == ProductRow(NextId(db.products), data,
                            IF has_category THEN data.category_id ELSE None)
        added        == WithProduct(db, new_product, tags_orm)
    IN  IF has_category /\ category_orm = None
        THEN Raised("ValueError", db, FALSE, None)
        ELSE IF fault = "flush" THEN Raised("StorageFailure", added, FALSE, None)
        ELSE IF fault = "refresh" THEN Raised("StorageFailure", added, TRUE, None)
        ELSE Returned(ProductRead(added, new_product), added, TRUE)

\* data: the scalar fields, category_id (None or Some(int)), tag_ids (a list).
product_create(db, data, fault) ==
    LET has_category == data.category_id # None /\ data.category_id[1] # 0
        category_orm == IF has_category
                        THEN Get(db.categories, data.category_id[1]) ELSE None
        tags_orm     == TagsIn(db, data.tag_ids)
        missing_ids  == Range(data.tag_ids) \ Ids(tags_orm)
        new_product  == ProductRow(NextId(db.products), data,
                            IF has_category THEN data.category_id ELSE None)
        added        == WithProduct(db, new_product, tags_orm)
    IN  IF has_category /\ category_orm = None
        THEN Raised("ValueError", db, FALSE, None)
        ELSE IF data.tag_ids # <<>> /\ missing_ids # {}
        THEN Raised("ValueError", db, FALSE, None)
        ELSE IF fault = "flush" THEN Raised("StorageFailure", added, FALSE, None)
        ELSE IF fault = "refresh" THEN Raised("StorageFailure", added, TRUE, None)
        ELSE Returned(ProductRead(added, new_product), added, TRUE)

product_get_by_id(db, product_id) ==
    LET product == Get(db.products, product_id)
    IN  IF product = None THEN None ELSE Some(ProductRead(db, product[1]))

product_get_all(db, skip, limit) ==
    LET products == Page(InIdOrder(db.products), skip, limit)
    IN  [i \in DOMAIN products |-> ProductRead(db, products[i])]

(***************************************************************************)
(* product_search_advanced: ilike over the outer join of products with     *)
(* their category and their tags.                                          *)
(***************************************************************************)
\* The letters the storage engine folds when it compares without case:
\* those of ASCII, and no other.
UpperCase ==
    << "A", "B", "C", "D", "E", "F", "G", "H", "I", "J", "K", "L", "M",
       "N", "O", "P", "Q", "R", "S", "T", "U", "V", "W", "X", "Y", "Z" >>

LowerCase ==
    << "a", "b", "c", "d", "e", "f", "g", "h", "i", "j", "k", "l", "m",
       "n", "o", "p", "q", "r", "s", "t", "u", "v", "w", "x", "y", "z" >>

lower(c) ==
    IF \E i \in DOMAIN UpperCase : UpperCase[i] = c
    THEN LowerCase[CHOOSE i \in DOMAIN UpperCase : UpperCase[i] = c]
    ELSE c

Lowered(s) == [i \in DOMAIN s |-> lower(s[i])]

\* text LIKE pattern: % stands for any run of characters, _ for any one
\* character, every other character for itself.
RECURSIVE Like(_, _)
Like(text, pattern) ==
    IF pattern = <<>> THEN text = <<>>
    ELSE IF Head(pattern) = "%"
    THEN \/ Like(text, Tail(pattern))
         \/ text # <<>> /\ Like(Tail(text), pattern)
    ELSE /\ text # <<>>
         /\ Head(pattern) = "_" \/ Head(pattern) = Head(text)
         /\ Like(Tail(text), Tail(pattern))

\* column.ilike(pattern): lower(column) LIKE lower(pattern); a NULL column
\* matches nothing.
ilike(column, pattern) ==
    column # None /\ Like(Lowered(column[1]), Lowered(pattern))

\* The name column of an outer-joined row, NULL when there is no such row.
NameOf(row) == IF row = None THEN None ELSE Some(row[1].name)

\* The rows the two outer joins give for one product: one per tag, or a
\* single row with a NULL tag.
JoinedRowsOf(db, product) ==
    LET category == IF product.category_id = None THEN None
                    ELSE Get(db.categories, product.category_id[1])
        tags     == InIdOrder({ t \in db.tags : t.id \in TagIdsOf(db, product.id) })
    IN  IF tags = <<>>
        THEN << [product |-> product, category |-> category, tag |-> None] >>
        ELSE [i \in DOMAIN tags |->
                 [product |-> product, category |-> category, tag |-> Some(tags[i])]]

RECURSIVE Joined(_, _)
Joined(db, products) ==
    IF products = <<>> THEN <<>>
    ELSE JoinedRowsOf(db, Head(products)) \o Joined(db, Tail(products))

\* SELECT DISTINCT / Result.unique(): each row once, at its first place.
RECURSIVE Distinct(_)
Distinct(rows) ==
    IF rows = <<>> THEN <<>>
    ELSE <<Head(rows)>> \o Distinct(SelectSeq(Tail(rows), LAMBDA r : r # Head(rows)))

\* The product column of the joined rows the WHERE clause keeps.
Selected(db, search) ==
    LET pattern == <<"%">> \o search \o <<"%">>
        joined  == Joined(db, InIdOrder(db.products))
        kept    == SelectSeq(joined, LAMBDA r :
                       \/ ilike(Some(r.product.name), pattern)
                       \/ ilike(NameOf(r.category), pattern)
                       \/ ilike(NameOf(r.tag), pattern))
    IN  [i \in DOMAIN kept |-> kept[i].product]

\* A query without DISTINCT: the page is cut from the joined rows, and only
\* Result.unique() removes the repeated products.
product_search_advanced_NoDistinct(db, search, skip, limit) ==
    LET products == Distinct(Page(Selected(db, search), skip, limit))
    IN  [i \in DOMAIN products |-> ProductRead(db, products[i])]

\* select ... where or_(ilike, ilike, ilike) .distinct().offset().limit(),
\* then scalars().unique().all() and model_validate.
product_search_advanced(db, search, skip, limit) ==
    LET products == Distinct(Page(Distinct(Selected(db, search)), skip, limit))
    IN  [i \in DOMAIN products |-> ProductRead(db, products[i])]

\* A sparse update: an absent category_id keeps the category the product
\* had, an omitted tag_ids keeps its tags.
product_update_Sparse(db, data, fault) ==
    LET existing_product == Get(db.products, data.id)
        old_tags      == { t \in db.tags : t.id \in TagIdsOf(db, data.id) }
        with_scalars  == ProductRow(data.id, data, existing_product[1].category_id)
        category_orm  == IF data.category_id # None
                         THEN Get(db.categories, data.category_id[1]) ELSE None
        with_category == IF data.category_id # None
                         THEN ProductRow(data.id, data, data.category_id)
                         ELSE with_scalars
        tag_ids       == IF data.tag_ids # None THEN data.tag_ids[1] ELSE <<>>
        tags_orm      == IF data.tag_ids # None THEN TagsIn(db, tag_ids) ELSE old_tags
        missing_ids   == Range(tag_ids) \ Ids(tags_orm)
        edited        == WithProduct(db, with_category, tags_orm)
    IN  IF existing_product = None THEN Raised("ValueError", db, FALSE, None)
        ELSE IF data.category_id # None /\ category_orm = None
        THEN Raised("ValueError", WithProduct(db, with_scalars, old_tags), FALSE,
                    Some(with_scalars))
        ELSE IF data.tag_ids # None /\ missing_ids # {}
        THEN Raised("ValueError", WithProduct(db, with_category, old_tags), FALSE,
                    Some(with_category))
        ELSE IF fault = "flush"
        THEN Raised("StorageFailure", edited, FALSE, Some(with_category))
        ELSE IF fault = "refresh"
        THEN Raised("StorageFailure", edited, TRUE, Some(with_category))
        ELSE Returned(ProductRead(edited, with_category), edited, TRUE)

\* An update that stores the category id of the input without resolving it.
product_update_Unvalidated(db, data, fault) ==
    LET existing_product == Get(db.products, data.id)
        old_tags      == { t \in db.tags : t.id \in TagIdsOf(db, data.id) }
        with_category == ProductRow(data.id, data, data.category_id)
        tag_ids       == IF data.tag_ids # None THEN data.tag_ids[1] ELSE <<>>
        tags_orm      == TagsIn(db, tag_ids)
        missing_ids   == Range(tag_ids) \ Ids(tags_orm)
        edited        == WithProduct(db, with_category, tags_orm)
    IN  IF existing_product = None THEN Raised("ValueError", db, FALSE, None)
        ELSE IF data.tag_ids # None /\ missing_ids # {}
        THEN Raised("ValueError", WithProduct(db, with_category, old_tags), FALSE,
                    Some(with_category))
        ELSE IF fault = "flush"
        THEN Raised("StorageFailure", edited, FALSE, Some(with_category))
        ELSE IF fault = "refresh"
        THEN Raised("StorageFailure", edited, TRUE, Some(with_category))
        ELSE Returned(ProductRead(edited, with_category), edited, TRUE)

\* data: id, the scalar fields, category_id (None or Some(int)),
\* tag_ids (None or Some(list)).
product_update(db, data, fault) ==
    LET existing_product == Get(db.products, data.id)
        old_tags      == { t \in db.tags : t.id \in TagIdsOf(db, data.id) }
        \* step 2: the scalar fields are assigned on the loaded entity
        with_scalars  == ProductRow(data.id, data, existing_product[1].category_id)
        category_orm  == IF data.category_id # None
                         THEN Get(db.categories, data.category_id[1]) ELSE None
        \* step 3: the category is assigned, or cleared
        with_category == ProductRow(data.id, data, data.category_id)
        tag_ids       == IF data.tag_ids # None THEN data.tag_ids[1] ELSE <<>>
        tags_orm      == TagsIn(db, tag_ids)
        missing_ids   == Range(tag_ids) \ Ids(tags_orm)
        \* step 4: the tag list is replaced, or cleared
        edited        == WithProduct(db, with_category, tags_orm)
    IN  IF existing_product = None THEN Raised("ValueError", db, FALSE, None)
        ELSE IF data.category_id # None /\ category_orm = None
        THEN Raised("ValueError", WithProduct(db, with_scalars, old_tags), FALSE,
                    Some(with_scalars))
        ELSE IF data.tag_ids # None /\ missing_ids # {}
        THEN Raised("ValueError", WithProduct(db, with_category, old_tags), FALSE,
                    Some(with_category))
        ELSE IF fault = "flush"
        THEN Raised("StorageFailure", edited, FALSE, Some(with_category))
        ELSE IF fault = "refresh"
        THEN Raised("StorageFailure", edited, TRUE, Some(with_category))
        ELSE Returned(ProductRead(edited, with_category), edited, TRUE)

\* A delete that raises when the product is not found.
product_delete_by_id_Raising(db, product_id) ==
    IF Get(db.products, product_id) = None
    THEN Raised("ValueError", db, FALSE, None)
    ELSE Returned(product_id,
                  [db EXCEPT
                      !.products = { p \in @ : p.id # product_id },
                      !.product_tags = { a \in @ : a.product_id # product_id }],
                  FALSE)

\* A delete that cascades to the tags the product carried.
product_delete_by_id_WithTags(db, product_id) ==
    IF Get(db.products, product_id) = None
    THEN Returned(-1, db, FALSE)
    ELSE LET carried == TagIdsOf(db, product_id)
         IN  Returned(product_id,
                      [db EXCEPT
                          !.products = { p \in @ : p.id # product_id },
                          !.tags = { t \in @ : t.id \notin carried },
                          !.product_tags = { a \in @ : /\ a.product_id # product_id
                                                       /\ a.tag_id \notin carried }],
                      FALSE)

\* Load the product, clear its tags, session.delete.
product_delete_by_id(db, product_id) ==
    IF Get(db.products, product_id) = None
    THEN Returned(-1, db, FALSE)
    ELSE Returned(product_id,
                  [db EXCEPT
                      !.products = { p \in @ : p.id # product_id },
                      !.product_tags = { a \in @ : a.product_id # product_id }],
                  FALSE)

(***************************************************************************)
(* Inputs the caller may pass in a given store.                            *)
(***************************************************************************)
\* Ids to look up: the ids in use, and 0, which no row ever has.
IdInputs(rows) == {0} \cup Ids(rows)

\* An optional reference: absent, 0, an id in use, or an id not yet allocated.
OptionalIds(rows) == {None} \cup { Some(i) : i \in IdInputs(rows) \cup {NextId(rows)} }

\* Lists of tag ids over the ids in use and one not allocated: empty,
\* single, and pairs in both orders and doubled.
TagIdLists(db) ==
    LET ids == Ids(db.tags) \cup {NextId(db.tags)}
    IN  {<<>>} \cup { <<a>> : a \in ids } \cup { <<a, b>> : a, b \in ids }

ProductCreates(db) ==
    { [name |-> s.name, description |-> s.description, image_url |-> s.image_url,
       price_shmeckles |-> s.price_shmeckles, price_flurbos |-> s.price_flurbos,
       category_id |-> c, tag_ids |-> t] :
         s \in ProductScalars, c \in OptionalIds(db.categories), t \in TagIdLists(db) }

ProductUpdates(db) ==
    { [id |-> i, name |-> s.name, description |-> s.description,
       image_url |-> s.image_url, price_shmeckles |-> s.price_shmeckles,
       price_flurbos |-> s.price_flurbos, category_id |-> c, tag_ids |-> t] :
         i \in IdInputs(db.products), s \in ProductScalars,
         c \in OptionalIds(db.categories),
         t \in {None} \cup { Some(l) : l \in TagIdLists(db) } }

\* Search texts: empty, letters in either case, the two LIKE wildcards.
SearchTexts == { <<>>, <<"P">>, <<"o">>, <<"U+043D">>, <<"_">>, <<"p", "%">> }

\* Offsets and page sizes.
Skips == {0, 1, 2}

Limits == {0, 1, 2, DefaultLimit}

(***************************************************************************)
(* The caller: one call at a time, each a whole wrapped operation.         *)
(***************************************************************************)
Idle ==
    [op |-> "idle", args |-> None, fault |-> "none", func_raised |-> FALSE,
     func_exc |-> "", flushed |-> FALSE, entity |-> None,
     raised |-> FALSE, exc |-> "", result |-> None, calls |-> <<>>, pre |-> EmptyDb]

\* The store stays within `cap` rows, and its ids within 1 .. cap.
Within(db, cap) ==
    /\ TotalRows(db) <= cap
    /\ \A i \in Ids(db.categories) \cup Ids(db.tags) \cup Ids(db.products) : i <= cap

\* One call of a wrapped operation: the function runs on the store as it
\* is, the wrapper commits or rolls back, and the caller sees the outcome.
\* Without the tables the first statement of the function raises.
Call(cap, op, args, fault, out) ==
    LET ran  == IF tables THEN out ELSE Raised("StorageFailure", store, FALSE, None)
        done == with_transaction(store, ran, fault = "commit")
    IN  /\ last.op = "idle"
        /\ Within(ran.txn, cap)
        /\ store' = done.store
        /\ last' = [op |-> op, args |-> Some(args), fault |-> fault,
                    func_raised |-> ran.raised, func_exc |-> ran.exc,
                    flushed |-> ran.flushed, entity |-> ran.entity,
                    raised |-> done.raised, exc |-> done.exc, result |-> done.result,
                    calls |-> done.calls, pre |-> store]
        /\ UNCHANGED <<proc, tables>>

CategoryCreate(F, cap) ==
    \E name \in Names, fault \in F :
        Call(cap, "category_create", [name |-> name], fault,
             category_create(store, name, fault))

CategoryUpdate(F, cap) ==
    \E id \in IdInputs(store.categories), name \in Names, fault \in F :
        Call(cap, "category_update", [id |-> id, name |-> name], fault,
             category_update(store, id, name, fault))

CategoryDelete(F, cap) ==
    \E id \in IdInputs(store.categories), fault \in F \cap {"none", "commit"} :
        Call(cap, "category_delete", [id |-> id], fault, category_delete(store, id))

TagCreate(F, cap) ==
    \E name \in Names, fault \in F :
        Call(cap, "tag_create", [name |-> name], fault, tag_create(store, name, fault))

TagUpdate(F, cap) ==
    \E id \in IdInputs(store.tags), name \in Names, fault \in F :
        Call(cap, "tag_update", [id |-> id, name |-> name], fault,
             tag_update(store, id, name, fault))

TagDelete(F, cap) ==
    \E id \in IdInputs(store.tags), fault \in F \cap {"none", "commit"} :
        Call(cap, "tag_delete", [id |-> id], fault, tag_delete(store, id))

ProductCreate(F, cap) ==
    \E data \in ProductCreates(store), fault \in F :
        Call(cap, "product_create", data, fault, product_create(store, data, fault))

ProductUpdate(F, cap) ==
    \E data \in ProductUpdates(store), fault \in F :
        Call(cap, "product_update", data, fault, product_update(store, data, fault))

ProductDelete(F, cap) ==
    \E id \in IdInputs(store.products), fault \in F \cap {"none", "commit"} :
        Call(cap, "product_delete_by_id", [id |-> id], fault,
             product_delete_by_id(store, id))

\* A search: a read in a session of its own, outside with_transaction.
ProductSearch ==
    \E search \in SearchTexts, skip \in Skips, limit \in Limits :
        /\ last.op = "idle"
        /\ last' = IF tables
                   THEN [Idle EXCEPT
                            !.op = "product_search_advanced",
                            !.args = Some([search |-> search, skip |-> skip,
                                           limit |-> limit]),
                            !.result = Some(product_search_advanced(store, search,
                                                                    skip, limit)),
                            !.pre = store]
                   ELSE [Idle EXCEPT
                            !.op = "product_search_advanced",
                            !.args = Some([search |-> search, skip |-> skip,
                                           limit |-> limit]),
                            !.raised = TRUE, !.exc = "StorageFailure",
                            !.pre = store]
        /\ UNCHANGED <<store, proc, tables>>

\* The caller takes the outcome of its call and is free to call again.
Return ==
    /\ last.op # "idle"
    /\ last' = Idle
    /\ UNCHANGED <<store, proc, tables>>

\* create_tables: Base.metadata.create_all creates the tables that are
\* absent and leaves the existing ones, with their rows, as they are.
CreateTables ==
    /\ last.op = "idle"
    /\ tables' = TRUE
    /\ UNCHANGED <<store, last, proc>>

\* drop_tables: Base.metadata.drop_all removes every table with its rows.
DropTables ==
    /\ last.op = "idle"
    /\ tables' = FALSE
    /\ store' = EmptyDb
    /\ UNCHANGED <<last, proc>>

(***************************************************************************)
(* Two concurrent callers of category_create / tag_create.  Each runs the  *)
(* statements of the function in a session of its own: the lookup by name  *)
(* reads the committed store; add and flush write a row that only the      *)
(* writer sees until its commit, and the store admits one writer at a      *)
(* time.                                                                   *)
(***************************************************************************)
Procs == {1, 2}

Kinds == {"categories", "tags"}

ProcIdle ==
    [pc |-> "idle", kind |-> "categories", name |-> <<>>, seen |-> {},
     row |-> None, raised |-> FALSE, exc |-> "", result |-> None, calls |-> <<>>]

\* The tables declare no constraint on the name column beyond NOT NULL.
NameAccepted(rows, name) == TRUE

\* An insert into a table that declares the name column unique.
Inserted_Unique(rows, name) ==
    IF ByName(rows, name) # {}
    THEN [raised |-> TRUE, exc |-> "IntegrityError", row |-> None]
    ELSE [raised |-> FALSE, exc |-> "", row |-> Some([id |-> NextId(rows), name |-> name])]

\* session.add, flush, refresh: the row under its new primary key.
Inserted(rows, name) ==
    IF ~NameAccepted(rows, name)
    THEN [raised |-> TRUE, exc |-> "IntegrityError", row |-> None]
    ELSE [raised |-> FALSE, exc |-> "", row |-> Some([id |-> NextId(rows), name |-> name])]

\* The call begins and looks the name up (scalar_one_or_none): more than
\* one row raises, one row is returned as it is, none leads to the insert.
CreateCheck(p) ==
    \E kind \in Kinds, name \in Names :
        LET existing == ByName(store[kind], name)
            begun    == [ProcIdle EXCEPT !.kind = kind, !.name = name, !.seen = existing]
        IN  /\ proc[p].pc = "idle"
            /\ proc' = [proc EXCEPT ![p] =
                           IF ~tables
                           THEN [begun EXCEPT !.pc = "done", !.raised = TRUE,
                                              !.seen = {}, !.exc = "StorageFailure",
                                              !.calls = <<"rollback">>]
                           ELSE IF Cardinality(existing) > 1
                           THEN [begun EXCEPT !.pc = "done", !.raised = TRUE,
                                              !.exc = "MultipleResultsFound",
                                              !.calls = <<"rollback">>]
                           ELSE IF existing # {}
                           THEN [begun EXCEPT !.pc = "commit",
                                              !.result = Some(CHOOSE r \in existing : TRUE)]
                           ELSE [begun EXCEPT !.pc = "insert"]]
            /\ UNCHANGED <<store, last, tables>>

\* Another session holds the write lock of the store: it has flushed a row
\* and not yet committed.
WriteLocked(p) ==
    \E q \in Procs \ {p} : proc[q].pc = "commit" /\ proc[q].row # None

\* The insert of flush.  While another session holds the write lock the
\* statement waits; it goes through when the lock is released in time, and
\* raises (database is locked) when the wait runs out, upon which
\* with_transaction rolls back and re-raises.
CreateInsert(p) ==
    LET rows == store[proc[p].kind]
        ins  == Inserted(rows, proc[p].name)
    IN  /\ proc[p].pc = "insert"
        /\ IF WriteLocked(p)
           THEN proc' = [proc EXCEPT ![p] =
                            [@ EXCEPT !.pc = "done", !.raised = TRUE,
                                      !.exc = "StorageFailure",
                                      !.calls = <<"rollback">>]]
           ELSE /\ Within([store EXCEPT ![proc[p].kind] = @ \cup Range(ins.row)],
                          MaxConcurrentRows)
                /\ proc' = [proc EXCEPT ![p] =
                               IF ins.raised
                               THEN [@ EXCEPT !.pc = "done", !.raised = TRUE,
                                              !.exc = ins.exc,
                                              !.calls = <<"rollback">>]
                               ELSE [@ EXCEPT !.pc = "commit", !.row = ins.row,
                                              !.result = ins.row]]
        /\ UNCHANGED <<store, last, tables>>

\* with_transaction commits what the function wrote, and the call returns.
CreateCommit(p) ==
    /\ proc[p].pc = "commit"
    /\ store' = [store EXCEPT ![proc[p].kind] = @ \cup Range(proc[p].row)]
    /\ proc' = [proc EXCEPT ![p] = [@ EXCEPT !.pc = "done", !.row = None,
                                             !.calls = <<"commit">>]]
    /\ UNCHANGED <<last, tables>>

\* The caller takes the outcome and is free to call again.
CreateReturn(p) ==
    /\ proc[p].pc = "done"
    /\ proc' = [proc EXCEPT ![p] = ProcIdle]
    /\ UNCHANGED <<store, last, tables>>

Init ==
    /\ store = EmptyDb
    /\ last = Idle
    /\ proc = [p \in Procs |-> ProcIdle]
    /\ tables = TRUE

\* The operations over a storage engine that does not fail.
Next ==
    \/ CategoryCreate({"none"}, MaxRows)
    \/ CategoryUpdate({"none"}, MaxRows)
    \/ CategoryDelete({"none"}, MaxRows)
    \/ TagCreate({"none"}, MaxRows)
    \/ TagUpdate({"none"}, MaxRows)
    \/ TagDelete({"none"}, MaxRows)
    \/ ProductCreate({"none"}, MaxRows)
    \/ ProductUpdate({"none"}, MaxRows)
    \/ ProductDelete({"none"}, MaxRows)
    \/ CreateTables
    \/ DropTables
    \/ Return

Spec == Init /\ [][Next]_vars

\* The same operations over a storage engine that may fail at any point.
NextFault ==
    \/ CategoryCreate(Faults, MaxFaultRows)
    \/ CategoryUpdate(Faults, MaxFaultRows)
    \/ CategoryDelete(Faults, MaxFaultRows)
    \/ TagCreate(Faults, MaxFaultRows)
    \/ TagUpdate(Faults, MaxFaultRows)
    \/ TagDelete(Faults, MaxFaultRows)
    \/ ProductCreate(Faults, MaxFaultRows)
    \/ ProductUpdate(Faults, MaxFaultRows)
    \/ ProductDelete(Faults, MaxFaultRows)
    \/ CreateTables
    \/ DropTables
    \/ Return

SpecFault == Init /\ [][NextFault]_vars

\* A store that is filled by the create operations and searched.
NextSearch ==
    \/ CategoryCreate({"none"}, MaxSearchRows)
    \/ TagCreate({"none"}, MaxSearchRows)
    \/ ProductCreate({"none"}, MaxSearchRows)
    \/ ProductSearch
    \/ Return

SpecSearch == Init /\ [][NextSearch]_vars

\* Two callers that create categories and tags concurrently.
NextConcurrent ==
    \E p \in Procs :
        \/ CreateCheck(p)
        \/ CreateInsert(p)
        \/ CreateCommit(p)
        \/ CreateReturn(p)

SpecConcurrent == Init /\ [][NextConcurrent]_vars

(***************************************************************************)
(* Properties.                                                             *)
(***************************************************************************)
Called == last.op # "idle"

\* C1 as stated: every call of a wrapped operation makes exactly one call
\* of commit or rollback on its session, never both and never neither, also
\* when commit itself raises.
C1_ExactlyOneCommitOrRollback ==
    Called => Len(last.calls) = 1

\* C1, amended: every call ends with exactly one of a commit that took
\* effect or a rollback.  commit is called alone when the function returned
\* and the commit went through; rollback is called alone when the function
\* raised; and when the function returned but commit raised, both are
\* called, the failed commit first and then the rollback, the call raises
\* and the store is left as it was.
C1_CommitOrRollback ==
    Called =>
        /\ last.calls \in { <<"commit">>, <<"rollback">>, <<"commit", "rollback">> }
        /\ last.calls = <<"rollback">> <=> last.func_raised
        /\ last.calls = <<"commit", "rollback">> <=>
               (~last.func_raised /\ last.fault = "commit")
        /\ last.calls = <<"commit">> <=> ~last.raised
        /\ last.raised => store = last.pre

\* A function returned after flushing a write, and the commit then raised.
C1_Witness ==
    /\ Called
    /\ last.calls = <<"commit", "rollback">>
    /\ last.flushed

\* C2: when the wrapped function raises, the wrapper rolls back, re-raises
\* the function's exception, and the store is what it was before the call,
\* also when the function had flushed writes before raising.
C2_RollbackOnFailure ==
    (Called /\ last.func_raised) =>
        /\ last.calls = <<"rollback">>
        /\ last.raised
        /\ last.exc = last.func_exc
        /\ store = last.pre

\* product_create flushed a product row and an association row, and the
\* statement after the flush raised.
C2_Witness ==
    /\ last.op = "product_create"
    /\ last.func_raised
    /\ last.flushed
    /\ last.args[1].tag_ids # <<>>
    /\ last.pre.tags # {}

\* The ids of a list of read entities.
IdsRead(entities) == { e.id : e \in Range(entities) }

\* C3: category_create and tag_create are idempotent by name: a call with
\* a name returns an entity, a second call with the same name returns the
\* same id and inserts nothing, and get_all then holds exactly one entity
\* with that name.
\* (Stated of calls on a store whose tables exist.)
C3_CreateIdempotentByName ==
    \/ ~tables
    \/ /\ last.op = "category_create" =>
              LET name  == last.args[1].name
                  again == category_create(store, name, "none")
                  all   == category_get_all(store)
              IN  /\ ~last.raised
                  /\ ~again.raised
                  /\ again.result[1].id = last.result[1].id
                  /\ again.txn = store
                  /\ Cardinality({ i \in DOMAIN all : all[i].name = name }) = 1
       /\ last.op = "tag_create" =>
              LET name  == last.args[1].name
                  again == tag_create(store, name, "none")
                  all   == tag_get_all(store)
              IN  /\ ~last.raised
                  /\ ~again.raised
                  /\ again.result[1].id = last.result[1].id
                  /\ again.txn = store
                  /\ Cardinality({ i \in DOMAIN all : all[i].name = name }) = 1

\* C4: product_create with a category_id that is present, 0 included, and
\* resolves to no category raises a validation failure, and product_get_all
\* returns the same products before and after the call.
\* (Stated of calls on a store whose tables exist.)
C4_UnresolvedCategoryRejected ==
    \/ ~tables
    \/ ( /\ last.op = "product_create"
         /\ last.args[1].category_id # None
         /\ Get(last.pre.categories, last.args[1].category_id[1]) = None )
       => /\ last.raised
          /\ last.exc = "ValueError"
          /\ product_get_all(store, DefaultSkip, DefaultLimit)
                 = product_get_all(last.pre, DefaultSkip, DefaultLimit)

\* C5: product_create with at least one tag id that resolves to no tag
\* raises, and neither a product row nor an association row is stored, not
\* even for the tag ids of the call that did resolve.
\* (Stated of calls on a store whose tables exist.)
C5_UnresolvedTagAborts ==
    \/ ~tables
    \/ ( /\ last.op = "product_create"
         /\ \E i \in Range(last.args[1].tag_ids) : Get(last.pre.tags, i) = None )
       => /\ last.raised
          /\ last.exc = "ValueError"
          /\ store.products = last.pre.products
          /\ store.product_tags = last.pre.product_tags
          /\ product_get_all(store, DefaultSkip, DefaultLimit)
                 = product_get_all(last.pre, DefaultSkip, DefaultLimit)

\* product_create was called with one tag id that resolves and one that
\* does not, and otherwise valid input.
C5_Witness ==
    /\ last.op = "product_create"
    /\ \E i \in Range(last.args[1].tag_ids) : Get(last.pre.tags, i) = None
    /\ \E i \in Range(last.args[1].tag_ids) : Get(last.pre.tags, i) # None
    /\ last.args[1].category_id = None
    /\ last.raised

\* C6: product_create with tag ids that all resolve (and a category that
\* is absent or resolves) returns a product, and product_get_by_id of the
\* returned id yields a product whose set of tag ids is the set of ids of
\* the input list, whatever the order and the repetitions of the list.
\* (Stated of calls on a store whose tables exist.)
C6_TagSetOfCreated ==
    \/ ~tables
    \/ ( /\ last.op = "product_create"
         /\ \A i \in Range(last.args[1].tag_ids) : Get(last.pre.tags, i) # None )
       => /\ ( \/ last.args[1].category_id = None
               \/ Get(last.pre.categories, last.args[1].category_id[1]) # None )
             => ~last.raised
          /\ ~last.raised =>
                 LET got == product_get_by_id(store, last.result[1].id)
                 IN  /\ got # None
                     /\ IdsRead(got[1].tags) = Range(last.args[1].tag_ids)
                     /\ Len(got[1].tags) = Cardinality(Range(last.args[1].tag_ids))

\* A product was created with two tags given in descending id order.
C6_Witness ==
    /\ last.op = "product_create"
    /\ ~last.raised
    /\ Len(last.args[1].tag_ids) = 2
    /\ last.args[1].tag_ids[1] > last.args[1].tag_ids[2]

\* C7: category_delete of an existing category that has dependent products
\* returns the category id; each product that referenced the category still
\* exists, with no category and otherwise as it was, and every other
\* product reads exactly as before, category and tags included.
\* (Stated of calls on a store whose tables exist.)
C7_CategoryDeleteDetaches ==
    \/ ~tables
    \/ ( /\ last.op = "category_delete"
         /\ Get(last.pre.categories, last.args[1].id) # None
         /\ \E p \in last.pre.products : p.category_id = Some(last.args[1].id) )
       => /\ ~last.raised
          /\ last.result = Some(last.args[1].id)
          /\ Get(store.categories, last.args[1].id) = None
          /\ Ids(store.products) = Ids(last.pre.products)
          /\ \A p \in last.pre.products :
                 LET before == product_get_by_id(last.pre, p.id)[1]
                     after  == product_get_by_id(store, p.id)[1]
                 IN  IF p.category_id = Some(last.args[1].id)
                     THEN after = [before EXCEPT !.category = None]
                     ELSE after = before

\* A category with a dependent product was deleted while the store held
\* another product that did not belong to it.
C7_Witness ==
    /\ last.op = "category_delete"
    /\ last.result = Some(last.args[1].id)
    /\ \E p \in last.pre.products : p.category_id = Some(last.args[1].id)
    /\ \E p \in last.pre.products : p.category_id # Some(last.args[1].id)

\* C8: tag_delete of an existing tag attached to products returns the tag
\* id; each product still exists, its tag set is its previous tag set
\* without the deleted tag, and its scalar fields and category are as they
\* were.
\* (Stated of calls on a store whose tables exist.)
C8_TagDeleteDetaches ==
    \/ ~tables
    \/ ( /\ last.op = "tag_delete"
         /\ Get(last.pre.tags, last.args[1].id) # None
         /\ \E a \in last.pre.product_tags : a.tag_id = last.args[1].id )
       => /\ ~last.raised
          /\ last.result = Some(last.args[1].id)
          /\ Get(store.tags, last.args[1].id) = None
          /\ Ids(store.products) = Ids(last.pre.products)
          /\ \A p \in last.pre.products :
                 LET before == product_get_by_id(last.pre, p.id)[1]
                     after  == product_get_by_id(store, p.id)[1]
                 IN  /\ Range(after.tags)
                            = { t \in Range(before.tags) : t.id # last.args[1].id }
                     /\ [after EXCEPT !.tags = before.tags] = before

\* A tag attached to two products was deleted.
C8_Witness ==
    /\ last.op = "tag_delete"
    /\ last.result = Some(last.args[1].id)
    /\ Cardinality({ a \in last.pre.product_tags : a.tag_id = last.args[1].id }) = 2

\* The input of a product_update names a category, or a tag, that does not
\* exist in the store the call started from.
UpdateUnresolved ==
    LET data == last.args[1]
    IN  \/ /\ data.category_id # None
           /\ Get(last.pre.categories, data.category_id[1]) = None
        \/ /\ data.tag_ids # None
           /\ \E i \in Range(data.tag_ids[1]) : Get(last.pre.tags, i) = None

\* C9: a product_update that finds its product and then fails on an
\* unresolved category id or tag id raises, and the product's scalar
\* fields, category and tags read afterwards exactly as before the call.
\* (Stated of calls on a store whose tables exist.)
C9_FailedUpdateChangesNothing ==
    \/ ~tables
    \/ ( /\ last.op = "product_update"
         /\ Get(last.pre.products, last.args[1].id) # None
         /\ UpdateUnresolved )
       => /\ last.raised
          /\ last.exc = "ValueError"
          /\ product_get_by_id(store, last.args[1].id)
                 = product_get_by_id(last.pre, last.args[1].id)
          /\ store = last.pre

\* The update failed on a tag id after new scalar fields and a new category
\* had been assigned on the loaded product.
C9_Witness ==
    /\ last.op = "product_update"
    /\ last.raised
    /\ last.entity # None
    /\ LET old == Get(last.pre.products, last.args[1].id)[1]
       IN  /\ last.entity[1].name # old.name
           /\ last.entity[1].category_id # None
           /\ last.entity[1].category_id # old.category_id

\* C10: product_update, category_update and tag_update with an id that
\* does not resolve raise (no sentinel is returned), leave the store as it
\* was, and no entity with that id exists afterwards.
\* (Stated of calls on a store whose tables exist.)
C10_UpdateOfMissingRaises ==
    \/ ~tables
    \/ /\ ( /\ last.op = "product_update"
            /\ Get(last.pre.products, last.args[1].id) = None )
          => /\ last.raised /\ last.exc = "ValueError" /\ last.result = None
             /\ store = last.pre
             /\ product_get_by_id(store, last.args[1].id) = None
       /\ ( /\ last.op = "category_update"
            /\ Get(last.pre.categories, last.args[1].id) = None )
          => /\ last.raised /\ last.exc = "ValueError" /\ last.result = None
             /\ store = last.pre
             /\ Get(store.categories, last.args[1].id) = None
       /\ ( /\ last.op = "tag_update"
            /\ Get(last.pre.tags, last.args[1].id) = None )
          => /\ last.raised /\ last.exc = "ValueError" /\ last.result = None
             /\ store = last.pre
             /\ Get(store.tags, last.args[1].id) = None

\* category_update was called with an id that no category has, in a store
\* that holds categories.
C10_Witness ==
    /\ last.op = "category_update"
    /\ last.pre.categories # {}
    /\ Get(last.pre.categories, last.args[1].id) = None
    /\ last.raised

\* The scalar fields of a product DTO or of a product read back.
Scalars(p) ==
    [name |-> p.name, description |-> p.description, image_url |-> p.image_url,
     price_shmeckles |-> p.price_shmeckles, price_flurbos |-> p.price_flurbos]

\* C11: after a successful product_update the product read back is
\* determined by the input alone: its category is the category the input's
\* category_id names, or null when category_id is absent; its tag set is the
\* set of ids of tag_ids when the list is present, and empty when the list
\* is omitted; its scalar fields are the input's.
C11_UpdateDeterminedByInput ==
    (last.op = "product_update" /\ ~last.raised) =>
        LET data == last.args[1]
            got  == product_get_by_id(store, data.id)
            tags == IF data.tag_ids = None THEN {} ELSE Range(data.tag_ids[1])
        IN  /\ got # None
            /\ last.result = got
            /\ got[1].id = data.id
            /\ Scalars(got[1]) = Scalars(data)
            /\ IF data.category_id = None
               THEN got[1].category = None
               ELSE /\ got[1].category # None
                    /\ got[1].category[1].id = data.category_id[1]
                    /\ got[1].category = Get(last.pre.categories, data.category_id[1])
            /\ IdsRead(got[1].tags) = tags
            /\ Len(got[1].tags) = Cardinality(tags)

\* A product that had a category and a tag was updated with category_id
\* absent and tag_ids omitted.
C11_Witness ==
    /\ last.op = "product_update"
    /\ ~last.raised
    /\ last.args[1].category_id = None
    /\ last.args[1].tag_ids = None
    /\ Get(last.pre.products, last.args[1].id)[1].category_id # None
    /\ TagIdsOf(last.pre, last.args[1].id) # {}

\* C14: category_delete, tag_delete and product_delete_by_id with an id
\* that does not resolve return -1 without raising and leave the store as it
\* was; with an id that resolves they return that id, which is never -1.
\* (Stated of calls on a store whose tables exist.)
C14_DeleteSentinel ==
    \/ ~tables
    \/ /\ last.op = "category_delete" =>
              /\ ~last.raised
              /\ IF Get(last.pre.categories, last.args[1].id) = None
                 THEN last.result = Some(-1) /\ store = last.pre
                 ELSE last.result = Some(last.args[1].id) /\ last.result # Some(-1)
       /\ last.op = "tag_delete" =>
              /\ ~last.raised
              /\ IF Get(last.pre.tags, last.args[1].id) = None
                 THEN last.result = Some(-1) /\ store = last.pre
                 ELSE last.result = Some(last.args[1].id) /\ last.result # Some(-1)
       /\ last.op = "product_delete_by_id" =>
              /\ ~last.raised
              /\ IF Get(last.pre.products, last.args[1].id) = None
                 THEN last.result = Some(-1) /\ store = last.pre
                 ELSE last.result = Some(last.args[1].id) /\ last.result # Some(-1)

\* product_delete_by_id was called with an id that no product has, in a
\* store that holds a product with a tag.
C14_Witness ==
    /\ last.op = "product_delete_by_id"
    /\ Get(last.pre.products, last.args[1].id) = None
    /\ last.pre.product_tags # {}
    /\ last.result = Some(-1)

\* C15: product_delete_by_id of an existing product removes the product and
\* its association rows and nothing else: the categories and the tags are
\* the same as before, and every other product reads exactly as before.
\* (Stated of calls on a store whose tables exist.)
C15_ProductDeleteFrame ==
    \/ ~tables
    \/ ( /\ last.op = "product_delete_by_id"
         /\ Get(last.pre.products, last.args[1].id) # None )
       => /\ ~last.raised
          /\ last.result = Some(last.args[1].id)
          /\ product_get_by_id(store, last.args[1].id) = None
          /\ store.products = { p \in last.pre.products : p.id # last.args[1].id }
          /\ store.product_tags
                 = { a \in last.pre.product_tags : a.product_id # last.args[1].id }
          /\ store.categories = last.pre.categories
          /\ store.tags = last.pre.tags
          /\ \A p \in last.pre.products :
                 p.id # last.args[1].id =>
                     product_get_by_id(store, p.id) = product_get_by_id(last.pre, p.id)

\* The deleted product carried a tag that another product carries too.
C15_Witness ==
    /\ last.op = "product_delete_by_id"
    /\ last.result = Some(last.args[1].id)
    /\ \E t \in TagIdsOf(last.pre, last.args[1].id) :
           \E p \in store.products : t \in TagIdsOf(store, p.id)

\* C16: product_create with no category_id and no tag_ids returns a
\* product, and product_get_by_id of the returned id yields a product with
\* the scalar fields of the input, no category and no tags; the id is not
\* the id of a product that existed before the call.
\* (Stated of calls on a store whose tables exist.)
C16_CreateThenGet ==
    \/ ~tables
    \/ ( /\ last.op = "product_create"
         /\ last.args[1].category_id = None
         /\ last.args[1].tag_ids = <<>> )
       => /\ ~last.raised
          /\ LET got == product_get_by_id(store, last.result[1].id)
             IN  /\ got # None
                 /\ got = last.result
                 /\ Scalars(got[1]) = Scalars(last.args[1])
                 /\ got[1].category = None
                 /\ got[1].tags = <<>>
                 /\ last.result[1].id \notin Ids(last.pre.products)

\* A product without relations was created in a store whose product ids
\* have a gap left by an earlier delete.
C16_Witness ==
    /\ last.op = "product_create"
    /\ last.args[1].category_id = None
    /\ last.args[1].tag_ids = <<>>
    /\ ~last.raised
    /\ last.pre.products # {}
    /\ Cardinality(last.pre.products) < MaxOf(Ids(last.pre.products))

\* C17: with a single sequential caller, no two categories and no two tags
\* of a reachable store have the same name.
C17_NamesUnique ==
    /\ \A a, b \in store.categories : a.name = b.name => a.id = b.id
    /\ \A a, b \in store.tags : a.name = b.name => a.id = b.id

\* C19: in every committed store, each product's category reference is null
\* or the id of an existing category, and each association row names an
\* existing product and an existing tag.
C19_ReferentialIntegrity ==
    /\ \A p \in store.products :
           p.category_id = None \/ Get(store.categories, p.category_id[1]) # None
    /\ \A a \in store.product_tags :
           /\ Get(store.products, a.product_id) # None
           /\ Get(store.tags, a.tag_id) # None

\* A product_update moved a product from one category to another.
C19_Witness ==
    /\ last.op = "product_update"
    /\ ~last.raised
    /\ LET old == Get(last.pre.products, last.args[1].id)[1]
       IN  /\ old.category_id # None
           /\ last.args[1].category_id # None
           /\ last.args[1].category_id # old.category_id

\* A character without its case: the small letter of a capital one.
CaseFolded(c) == IF c = "U+041D" THEN "U+043D" ELSE lower(c)

\* text is a substring of s, letters compared without case.
Contains(s, text) ==
    \E i \in 0 .. (Len(s) - Len(text)) :
        \A j \in 1 .. Len(text) : CaseFolded(s[i + j]) = CaseFolded(text[j])

\* The products whose name, category name or some tag name contains text.
Containing(db, text) ==
    { p \in db.products :
        \/ Contains(p.name, text)
        \/ /\ p.category_id # None
           /\ \E c \in db.categories : c.id = p.category_id[1] /\ Contains(c.name, text)
        \/ \E t \in db.tags : t.id \in TagIdsOf(db, p.id) /\ Contains(t.name, text) }

\* C12: product_search_advanced(text) with the default pagination returns
\* exactly the products for which text is a substring, without regard to
\* case, of the product's name, of its category's name or of the name of
\* one of its tags, each of them once and read with its relations.
C12_SearchBySubstring ==
    ( /\ last.op = "product_search_advanced"
      /\ last.args[1].skip = DefaultSkip
      /\ last.args[1].limit = DefaultLimit )
    => LET found    == last.result[1]
           expected == Containing(store, last.args[1].search)
       IN  /\ IdsRead(found) = Ids(expected)
           /\ Len(found) = Cardinality(expected)
           /\ \A i \in DOMAIN found : Some(found[i]) = product_get_by_id(store, found[i].id)

\* The products the query of product_search_advanced selects.
Matched(db, search) == Range(Selected(db, search))

Min(a, b) == IF a < b THEN a ELSE b

\* The pages of `limit` products at the offsets 0, limit, 2 limit, ...
RECURSIVE Pages(_, _, _, _)
Pages(db, search, limit, k) ==
    IF k = 0 THEN <<>>
    ELSE Pages(db, search, limit, k - 1)
             \o product_search_advanced(db, search, (k - 1) * limit, limit)

\* C18: product_search_advanced(text, skip, limit) removes duplicates before
\* it cuts the page: with M products matched, it returns exactly
\* min(limit, max(0, M - skip)) products, all different and all matched, and
\* the pages at the offsets 0, limit, 2 limit, ... hold every matched
\* product once.
C18_DistinctBeforePagination ==
    last.op = "product_search_advanced" =>
        LET search == last.args[1].search
            skip   == last.args[1].skip
            limit  == last.args[1].limit
            found  == last.result[1]
            M      == Cardinality(Matched(store, search))
            pages  == Pages(store, search, limit, M)
        IN  /\ Len(found) = Min(limit, IF M > skip THEN M - skip ELSE 0)
            /\ Cardinality(IdsRead(found)) = Len(found)
            /\ IdsRead(found) \subseteq Ids(Matched(store, search))
            /\ limit > 0 =>
                   /\ Len(pages) = M
                   /\ IdsRead(pages) = Ids(Matched(store, search))

\* Two products match, one of them through two of its tags, and the second
\* page of one product was asked for.
C18_Witness ==
    /\ last.op = "product_search_advanced"
    /\ last.args[1].skip = 1
    /\ last.args[1].limit = 1
    /\ Len(last.result[1]) = 1
    /\ Cardinality(Matched(store, last.args[1].search)) = 2
    /\ \E i \in DOMAIN Selected(store, last.args[1].search) :
           \E j \in DOMAIN Selected(store, last.args[1].search) :
               i # j /\ Selected(store, last.args[1].search)[i]
                            = Selected(store, last.args[1].search)[j]

\* Two different callers have both finished a create of the same kind and
\* name, and neither found an entity of that name when it looked.
BothPassedCheck(p, q) ==
    /\ p # q
    /\ proc[p].pc = "done" /\ proc[q].pc = "done"
    /\ proc[p].kind = proc[q].kind
    /\ proc[p].name = proc[q].name
    /\ proc[p].seen = {} /\ proc[q].seen = {}

\* C13: two concurrent category_create (or tag_create) calls with the same
\* name that both pass the existence check before either commits both go
\* on to insert, since neither a lock nor a uniqueness constraint holds the
\* second one back: a call that returns has inserted its own row, so that
\* when both return the store holds two entities of that name under
\* different ids; a call raises only when its insert ran out of time
\* waiting for the other's commit, and then the other one returns.
C13_ConcurrentCreatesBothInsert ==
    \A p, q \in Procs :
        BothPassedCheck(p, q) =>
            /\ ~(proc[p].raised /\ proc[q].raised)
            /\ proc[p].raised =>
                   /\ proc[p].exc = "StorageFailure"
                   /\ proc[p].calls = <<"rollback">>
                   /\ proc[p].result = None
            /\ ~proc[p].raised =>
                   /\ proc[p].calls = <<"commit">>
                   /\ proc[p].result[1].name = proc[p].name
                   /\ proc[p].result[1] \in store[proc[p].kind]
            /\ (~proc[p].raised /\ ~proc[q].raised) =>
                   proc[p].result[1].id # proc[q].result[1].id

\* Both callers have created a tag of the same name, and the store holds
\* two tags of that name under different ids.
C13_Witness ==
    /\ BothPassedCheck(1, 2)
    /\ ~proc[1].raised /\ ~proc[2].raised
    /\ proc[1].kind = "tags"
    /\ \E a, b \in store.tags : a.id # b.id /\ a.name = b.name /\ a.name = proc[1].name

====
